---- MODULE Spec2Model ----
(***************************************************************************)
(* State-machine model of src/app/main.py: a Telegram bot that relays      *)
(* text / photo messages to a remote image-generation service.            *)
(*                                                                         *)
(* The process is one asyncio event loop.  A call that is awaited on the   *)
(* Telegram client (send_action, get_file, reply_text, reply_photo)        *)
(* suspends the calling task; requests.get inside _download_file and the   *)
(* synchronous OpenAI client do not: they run on the loop's own thread.    *)
(* Every call is modelled in two phases, issue and completion, and the     *)
(* completion of a call runs the handler up to the next call it issues.    *)
(***************************************************************************)
EXTENDS Integers, Sequences, FiniteSets, TLC

\* ------------------------------------------------------------------ bounds
MaxLen == 2        \* longest message: characters of caption and text together
MaxQueue == 2      \* updates waiting in the update queue at one time
MaxSignals == 2    \* termination signals delivered in one run

\* ------------------------------------------------------------- value sets
Chars == {" ", "a"}
None == <<"None">>                       \* Python's None for an optional string
NoMsg == [photo |-> <<>>, caption |-> None, text |-> None, chat |-> 0]
Command == "/start"                      \* the bot command entity of a text

RECURSIVE StrUpTo(_)
StrUpTo(n) ==
    IF n = 0 THEN {<<>>}
    ELSE LET S == StrUpTo(n - 1)
         IN  S \cup {Append(s, c) : s \in {x \in S : Len(x) = n - 1}, c \in Chars}

Str == StrUpTo(MaxLen)
OptStr == Str \cup {None}
TextVals == OptStr \cup {<<Command>>}    \* message.text
PhotoVals == {<<>>, <<"small", "large">>}     \* message.photo: sizes, best last
Chats == {1, 2}
EnvVals == {"unset", "empty", "set"}     \* an environment variable
FilePaths == {"path"}                    \* file_obj.file_path
FileBytes == {"img", "junk"}             \* bytes of a downloaded attachment
Urls == {"u1", "u2"}                     \* response.data[0].url
NoUrl == "None"                          \* a response whose url is None
ResultBytes == {"b1", "b2"}              \* bytes served at a result URL

\* --------------------------------------------------------- pure functions
\* Python truthiness of an optional string.
Truthy(s) == s # None /\ s # <<>>

\* Python's `a or b`.
Or(a, b) == IF Truthy(a) THEN a ELSE b

IsSpace(c) == c = " "

RECURSIVE LStrip(_)
LStrip(s) == IF s # <<>> /\ IsSpace(Head(s)) THEN LStrip(Tail(s)) ELSE s

RECURSIVE RStrip(_)
RStrip(s) ==
    IF s # <<>> /\ IsSpace(s[Len(s)]) THEN RStrip(SubSeq(s, 1, Len(s) - 1)) ELSE s

StripNothing(s) == s
StripAll(s) == <<>>
\* str.strip()
Strip(s) == RStrip(LStrip(s))

PromptTextFirst(m) == Or(Or(m.text, m.caption), <<>>)
PromptStripped(m) == Strip(Or(Or(m.caption, m.text), <<>>))
\* prompt = message.caption or message.text or ""
Prompt(m) == Or(Or(m.caption, m.text), <<>>)

\* Image.open(photo_bytes) succeeds only on image data.
Decodes(b) == b = "img"

\* ("image.png", <PNG re-encoding of the RGBA image>, "image/png")
ImageFile(b) == <<"image.png", <<"png", b>>, "image/png">>

\* filters.PHOTO | filters.TEXT
MatchesFilter(m) == m.photo # <<>> \/ Truthy(m.text)

\* CommandHandler("start", start): the text begins with the command.
IsStartCommand(m) == m.text # None /\ m.text # <<>> /\ Head(m.text) = Command

\* The check of the handler registered under a name.
CheckUpdate(name, m) ==
    IF name = "start" THEN IsStartCommand(m) ELSE MatchesFilter(m)

LastHandlerFor(handlers, m) ==
    LET matching == {i \in DOMAIN handlers : CheckUpdate(handlers[i], m)}
    IN  IF matching = {} THEN "none"
        ELSE handlers[CHOOSE i \in matching : \A j \in matching : j <= i]
\* The handlers are tried in the order they were added and the first one
\* whose check matches handles the update; the others do not see it.
HandlerFor(handlers, m) ==
    LET matching == {i \in DOMAIN handlers : CheckUpdate(handlers[i], m)}
    IN  IF matching = {} THEN "none"
        ELSE handlers[CHOOSE i \in matching : \A j \in matching : i <= j]

\* The number of characters of an optional string.
Size(s) == IF s = None THEN 0 ELSE Len(s)

\* The messages the transport delivers.  Only a media message carries a
\* caption, so a message without a photo has none.
Updates ==
    {m \in [photo : PhotoVals, caption : OptStr, text : TextVals, chat : Chats] :
        /\ m.photo = <<>> => m.caption = None
        /\ Size(m.caption) + Size(m.text) <= MaxLen}

\* ------------------------------------------------------------------ state
VARIABLES
    env,            \* the two credentials in the environment
    procPc,         \* where the process is: import, run_bot, main ...
    mainResult,     \* how main() ended: "none", "returned", "raised"
    errorLogged,    \* logger.error of main() was written
    application,    \* the telegram Application / Updater, once built
    tasks,          \* pending asyncio tasks other than main()
    cancelled,      \* tasks cancelled by run_bot
    sigCount,       \* termination signals delivered so far
    sd,             \* sd[k]: position of the shutdown task of the k-th signal
    queue,          \* updates waiting in application.update_queue
    h               \* the handler invocation in progress, or the last one

vars == <<env, procPc, mainResult, errorLogged, application, tasks, cancelled,
          sigCount, sd, queue, h>>

procVars == <<env, procPc, mainResult, errorLogged, cancelled>>
sigVars == <<sigCount, sd>>
msgVars == <<queue, h>>

NoApplication ==
    [built |-> FALSE, handlers |-> <<>>, initialized |-> FALSE,
     running |-> FALSE, fetching |-> FALSE, polling |-> FALSE,
     signalHandlers |-> FALSE]

Idle == [fn |-> "none", msg |-> NoMsg, pc |-> "idle", log |-> <<>>]

\* ------------------------------------------------- the handler, as code
\* A call is appended to the invocation's log when it is issued and its
\* outcome is filled in when it completes.
Issue(x, t, arg, pc) ==
    [x EXCEPT !.pc = pc,
              !.log = Append(@, [t |-> t, arg |-> arg, st |-> "pending", res |-> <<>>])]

Settle(x, ok, res) ==
    [x EXCEPT !.log[Len(x.log)] =
        [@ EXCEPT !.st = IF ok THEN "ok" ELSE "fail", !.res = res]]

Last(x) == x.log[Len(x.log)]
Succeeded(x) == Last(x).st = "ok"

Return(x) == [x EXCEPT !.pc = "returned"]
Raise(x) == [x EXCEPT !.pc = "raised"]

\* await _download_file(url): requests.get on the loop's thread.
DownloadFile(x, url, pc) == Issue(x, "download_file", <<url>>, pc)

ExceptSilently(x) == Return(x)
ExceptRetry(x) ==
    IF x.pc = "fetch"
    THEN Issue(x, x.log[Len(x.log) - 1].t, x.log[Len(x.log) - 1].arg, "remote")
    ELSE Issue(x, "reply_text", <<x.msg.chat, "error">>, "reply_error")
ExceptToFirstChat(x) == Issue(x, "reply_text", <<1, "error">>, "reply_error")
\* except Exception: logger.exception(...); await message.reply_text(<error>)
Except(x) == Issue(x, "reply_text", <<x.msg.chat, "error">>, "reply_error")

EnterWithoutAction(m) ==
    Issue([fn |-> "process_media", msg |-> m, pc |-> "idle", log |-> <<>>],
          "reply_text", <<m.chat, "guidance">>, "reply_guidance")
\* process_media up to its first await: the status indicator.
Enter(m) ==
    Issue([fn |-> "process_media", msg |-> m, pc |-> "idle", log |-> <<>>],
          "send_action", <<m.chat, "upload_photo">>, "send_action")

\* the start command: await update.message.reply_text(<greeting>)
start(m) ==
    Issue([fn |-> "start", msg |-> m, pc |-> "idle", log |-> <<>>],
          "reply_text", <<m.chat, "greeting">>, "reply_start")

\* the greeting reply has completed; start has no try around it
AfterGreeting(x) == IF Succeeded(x) THEN Return(x) ELSE Raise(x)

\* the text-only branch
TextOnly(x) ==
    LET prompt == Strip(Prompt(x.msg))
    IN  IF ~Truthy(prompt)
        THEN Issue(x, "reply_text", <<x.msg.chat, "guidance">>, "reply_guidance")
        ELSE Issue(x, "generate", <<prompt>>, "remote")

PhotoCallSwapped(x, image) ==
    IF Truthy(Prompt(x.msg))
    THEN Issue(x, "create_variation", <<image>>, "remote")
    ELSE Issue(x, "edit", <<Prompt(x.msg), image>>, "remote")
\* the photo branch once the image file is built
PhotoCall(x, image) ==
    IF Truthy(Prompt(x.msg))
    THEN Issue(x, "edit", <<Prompt(x.msg), image>>, "remote")
    ELSE Issue(x, "create_variation", <<image>>, "remote")

\* the send_action call has completed
AfterSendAction(x) ==
    IF ~Succeeded(x) THEN Raise(x)
    ELSE IF x.msg.photo # <<>>
         THEN Issue(x, "get_file", <<x.msg.photo[Len(x.msg.photo)]>>, "get_file")
         ELSE TextOnly(x)

\* message.photo[-1].get_file() has completed
AfterGetFile(x) ==
    IF ~Succeeded(x) THEN Except(x)
    ELSE DownloadFile(x, Last(x).res[1], "download")

\* the attachment download has completed
AfterDownload(x) ==
    IF ~Succeeded(x) THEN Except(x)
    ELSE IF ~Decodes(Last(x).res[1]) THEN Except(x)
         ELSE PhotoCall(x, ImageFile(Last(x).res[1]))

FirstUrl(res) == "u1"
\* image_url = response.data[0].url
ImageUrl(res) == res[1]

\* the remote generation call has completed
AfterRemote(x) ==
    IF ~Succeeded(x) THEN Except(x)
    ELSE IF ImageUrl(Last(x).res) = NoUrl THEN Except(x)
         ELSE DownloadFile(x, ImageUrl(Last(x).res), "fetch")

\* the download of the result has completed
AfterFetch(x) ==
    IF ~Succeeded(x) THEN Except(x)
    ELSE Issue(x, "reply_photo", <<x.msg.chat, Last(x).res[1]>>, "reply_photo")

AfterReplyPhotoThenError(x) == Except(x)
\* message.reply_photo has completed
AfterReplyPhoto(x) == IF Succeeded(x) THEN Return(x) ELSE Except(x)

AfterGuidanceEscapes(x) == IF Succeeded(x) THEN Return(x) ELSE Raise(x)
\* the guidance reply has completed
AfterGuidance(x) == IF Succeeded(x) THEN Return(x) ELSE Except(x)

\* the generic error reply has completed
AfterError(x) == IF Succeeded(x) THEN Return(x) ELSE Raise(x)

\* The loop's thread is inside a synchronous network call.
Blocking == {"download", "remote", "fetch"}
LoopBlocked == h.pc \in Blocking

\* ------------------------------------------------------------------- init
Init ==
    /\ env \in [token : EnvVals, key : EnvVals]
    /\ procPc = "import"
    /\ mainResult = "none"
    /\ errorLogged = FALSE
    /\ application = NoApplication
    /\ tasks = {}
    /\ cancelled = {}
    /\ sigCount = 0
    /\ sd = [k \in 1..MaxSignals |-> "none"]
    /\ queue = 0
    /\ h = Idle

\* os.getenv(name) is falsy: the variable is unset or empty.
Missing(v) == v \in {"unset", "empty"}

\* ---------------------------------------------------- start-up and exit
\* Module import: load_dotenv(), logging, OpenAI(api_key=os.getenv(...)).
\* The client's constructor raises when it is given no key at all (None);
\* an empty key is accepted.  The exception ends the process at import.
ImportModule ==
    /\ procPc = "import"
    /\ procPc' = IF env.key = "unset" THEN "import_error" ELSE "run_bot"
    /\ UNCHANGED <<env, mainResult, errorLogged, cancelled, application, tasks>>
    /\ UNCHANGED <<sigVars, msgVars>>

\* run_bot() creates the loop and runs main() to its first await: the
\* credential check, then building the application and adding the handlers.
Main ==
    /\ procPc = "run_bot"
    /\ IF Missing(env.token) \/ Missing(env.key)
       THEN /\ errorLogged' = TRUE
            /\ mainResult' = "returned"
            /\ procPc' = "cleanup"
            /\ UNCHANGED application
       ELSE /\ application' = [application EXCEPT
                                 !.built = TRUE,
                                 !.handlers = <<"start", "process_media">>]
            /\ procPc' = "initialize"
            /\ UNCHANGED <<errorLogged, mainResult>>
    /\ UNCHANGED <<env, cancelled, tasks, sigVars, msgVars>>

\* await application.initialize()
Initialize ==
    /\ procPc = "initialize"
    /\ \E ok \in BOOLEAN :
         IF ok
         THEN /\ application' = [application EXCEPT !.initialized = TRUE]
              /\ procPc' = "start"
              /\ UNCHANGED mainResult
         ELSE /\ mainResult' = "raised"
              /\ procPc' = "cleanup"
              /\ UNCHANGED application
    /\ UNCHANGED <<env, errorLogged, cancelled, tasks, sigVars, msgVars>>

\* await application.start(): the update fetcher task is created.
Start ==
    /\ procPc = "start"
    /\ \E ok \in BOOLEAN :
         IF ok
         THEN /\ application' = [application EXCEPT !.running = TRUE,
                                                    !.fetching = TRUE]
              /\ tasks' = tasks \cup {"update_fetcher"}
              /\ procPc' = "start_polling"
              /\ UNCHANGED mainResult
         ELSE /\ mainResult' = "raised"
              /\ procPc' = "cleanup"
              /\ UNCHANGED <<application, tasks>>
    /\ UNCHANGED <<env, errorLogged, cancelled, sigVars, msgVars>>

\* await application.updater.start_polling(), then the signal handlers are
\* installed and main() waits on an Event that nothing sets.  The except
\* and finally clauses around the wait run only if the wait raises: no
\* task cancels main(), and SIGINT is taken by the installed lambda instead
\* of raising KeyboardInterrupt, so no step leaves the wait.
StartPolling ==
    /\ procPc = "start_polling"
    /\ \E ok \in BOOLEAN :
         IF ok
         THEN /\ application' = [application EXCEPT !.polling = TRUE,
                                                    !.signalHandlers = TRUE]
              /\ tasks' = tasks \cup {"polling"}
              /\ procPc' = "waiting"
              /\ UNCHANGED mainResult
         ELSE /\ mainResult' = "raised"
              /\ procPc' = "cleanup"
              /\ UNCHANGED <<application, tasks>>
    /\ UNCHANGED <<env, errorLogged, cancelled, sigVars, msgVars>>

\* run_bot's finally: cancel every pending task.
RunBotCancel ==
    /\ procPc = "cleanup"
    /\ cancelled' = tasks
    /\ procPc' = "gather"
    /\ UNCHANGED <<env, mainResult, errorLogged, application, tasks>>
    /\ UNCHANGED <<sigVars, msgVars>>

\* run_bot's finally: the cancelled tasks settle in gather(), loop.close().
RunBotClose ==
    /\ procPc = "gather"
    /\ tasks' = {}
    /\ procPc' = "exited"
    /\ UNCHANGED <<env, mainResult, errorLogged, application, cancelled>>
    /\ UNCHANGED <<sigVars, msgVars>>

\* The loop runs the tasks other than main() while main() waits.
LoopRuns == procPc = "waiting" /\ ~LoopBlocked

\* ------------------------------------------------- signals and shutdown
\* SIGTERM or SIGINT while the handlers of main() are installed: the lambda
\* creates one more task running shutdown(application).  The signal is
\* taken even while the loop's thread is inside a synchronous call.
Signal ==
    /\ procPc = "waiting"
    /\ application.signalHandlers
    /\ sigCount < MaxSignals
    /\ sigCount' = sigCount + 1
    /\ sd' = [sd EXCEPT ![sigCount + 1] = "updater_stop"]
    /\ UNCHANGED <<procVars, application, tasks, msgVars>>

\* shutdown: await application.updater.stop(); raises if not polling.
UpdaterStop(k) ==
    /\ LoopRuns
    /\ sd[k] = "updater_stop"
    /\ IF application.polling
       THEN /\ application' = [application EXCEPT !.polling = FALSE]
            /\ tasks' = tasks \ {"polling"}
            /\ sd' = [sd EXCEPT ![k] = "application_stop"]
       ELSE /\ sd' = [sd EXCEPT ![k] = "failed"]
            /\ UNCHANGED <<application, tasks>>
    /\ UNCHANGED <<procVars, sigCount, msgVars>>

\* shutdown: await application.stop() begins; raises if not running.
ApplicationStop(k) ==
    /\ LoopRuns
    /\ sd[k] = "application_stop"
    /\ IF application.running
       THEN /\ application' = [application EXCEPT !.running = FALSE]
            /\ sd' = [sd EXCEPT ![k] = "stopping"]
       ELSE /\ sd' = [sd EXCEPT ![k] = "failed"]
            /\ UNCHANGED application
    /\ UNCHANGED <<procVars, tasks, sigCount, msgVars>>

\* application.stop() returns once the update queue is drained and the
\* update fetcher has ended.
ApplicationStopped(k) ==
    /\ LoopRuns
    /\ sd[k] = "stopping"
    /\ queue = 0
    /\ h.pc = "idle"
    /\ application' = [application EXCEPT !.fetching = FALSE]
    /\ tasks' = tasks \ {"update_fetcher"}
    /\ sd' = [sd EXCEPT ![k] = "application_shutdown"]
    /\ UNCHANGED <<procVars, sigCount, msgVars>>

\* shutdown: await application.shutdown(); raises if still running.
ApplicationShutdown(k) ==
    /\ LoopRuns
    /\ sd[k] = "application_shutdown"
    /\ IF application.running
       THEN /\ sd' = [sd EXCEPT ![k] = "failed"]
            /\ UNCHANGED application
       ELSE /\ application' = [application EXCEPT !.initialized = FALSE]
            /\ sd' = [sd EXCEPT ![k] = "done"]
    /\ UNCHANGED <<procVars, tasks, sigCount, msgVars>>

\* ------------------------------------------------------------- messages
\* The polling task puts one more update into application.update_queue.
Receive ==
    /\ LoopRuns
    /\ application.polling
    /\ queue < MaxQueue
    /\ queue' = queue + 1
    /\ UNCHANGED <<procVars, application, tasks, sigVars, h>>

\* The update fetcher takes the next update once the handler of the
\* previous one has ended (the application is built without concurrent
\* updates) and runs the handler that takes it, if any.
\* The content of the update is drawn when it is taken from the queue.
Dispatch ==
    /\ LoopRuns
    /\ application.fetching
    /\ queue > 0
    /\ h.pc = "idle"
    /\ queue' = queue - 1
    /\ \E m \in Updates :
         h' = CASE HandlerFor(application.handlers, m) = "start" -> start(m)
                [] HandlerFor(application.handlers, m) = "process_media" -> Enter(m)
                [] OTHER -> Idle
    /\ UNCHANGED <<procVars, application, tasks, sigVars>>

\* The handler has ended and the update fetcher has control again: it logs
\* an exception that escaped the handler and is ready for the next update.
Collect ==
    /\ LoopRuns
    /\ h.pc \in {"returned", "raised"}
    /\ h' = Idle
    /\ UNCHANGED <<procVars, application, tasks, sigVars, queue>>

\* Outcomes of a call: <<>> is a failure, <<v>> a success returning v.
Outcomes(V) == {<<>>} \cup {<<v>> : v \in V}

Completes(pc, next) ==
    /\ procPc = "waiting"
    /\ h.pc = pc
    /\ h' = next
    /\ UNCHANGED <<procVars, application, tasks, sigVars, queue>>

SendActionDone ==
    \E ok \in BOOLEAN :
        Completes("send_action", AfterSendAction(Settle(h, ok, <<>>)))

GetFileDone ==
    \E r \in Outcomes(FilePaths) :
        Completes("get_file", AfterGetFile(Settle(h, r # <<>>, r)))

DownloadDone ==
    \E r \in Outcomes(FileBytes) :
        Completes("download", AfterDownload(Settle(h, r # <<>>, r)))

RemoteDone ==
    \E r \in Outcomes(Urls \cup {NoUrl}) :
        Completes("remote", AfterRemote(Settle(h, r # <<>>, r)))

FetchDone ==
    \E r \in Outcomes(ResultBytes) :
        Completes("fetch", AfterFetch(Settle(h, r # <<>>, r)))

ReplyPhotoDone ==
    \E ok \in BOOLEAN :
        Completes("reply_photo", AfterReplyPhoto(Settle(h, ok, <<>>)))

GuidanceDone ==
    \E ok \in BOOLEAN :
        Completes("reply_guidance", AfterGuidance(Settle(h, ok, <<>>)))

ErrorDone ==
    \E ok \in BOOLEAN :
        Completes("reply_error", AfterError(Settle(h, ok, <<>>)))

GreetingDone ==
    \E ok \in BOOLEAN :
        Completes("reply_start", AfterGreeting(Settle(h, ok, <<>>)))

\* One step of the handler in progress.
HandlerStep ==
    \/ SendActionDone
    \/ GetFileDone
    \/ DownloadDone
    \/ RemoteDone
    \/ FetchDone
    \/ ReplyPhotoDone
    \/ GuidanceDone
    \/ ErrorDone
    \/ GreetingDone

Shutdown ==
    \E k \in 1..MaxSignals :
        \/ UpdaterStop(k)
        \/ ApplicationStop(k)
        \/ ApplicationStopped(k)
        \/ ApplicationShutdown(k)

Next ==
    \/ ImportModule
    \/ Main
    \/ Initialize
    \/ Start
    \/ StartPolling
    \/ RunBotCancel
    \/ RunBotClose
    \/ Signal
    \/ Shutdown
    \/ Receive
    \/ Dispatch
    \/ HandlerStep
    \/ Collect

Spec == Init /\ [][Next]_vars

\* The loop runs every ready task, every call completes, and the process
\* takes every step it can take.
FairSpec ==
    /\ Spec
    /\ WF_vars(Next)
    /\ WF_vars(Shutdown)
    /\ WF_vars(HandlerStep \/ Collect \/ Dispatch)
    /\ WF_vars(RunBotCancel \/ RunBotClose)

\* ================================================================ claims
RemoteOps == {"edit", "create_variation", "generate"}
Range(f) == {f[i] : i \in DOMAIN f}
Idx(T) == {i \in DOMAIN h.log : h.log[i].t \in T}
RemoteCalls == Idx(RemoteOps)
Downloads == Idx({"download_file"})
PhotoReplies == Idx({"reply_photo"})
TextReplies(kind) == {i \in Idx({"reply_text"}) : h.log[i].arg[2] = kind}
Ok(i) == h.log[i].st = "ok"
Failed(i) == h.log[i].st = "fail"
Ended == h.pc \in {"returned", "raised"}
HasPhoto == h.msg.photo # <<>>
\* absent, empty or whitespace-only
Blank(s) == s = None \/ \A i \in DOMAIN s : s[i] = " "
StatusSent == h.log # <<>> /\ h.log[1].t = "send_action" /\ Ok(1)

\* C1: every remote operation invoked for a message is the one its shape
\* selects: edit for a photo with a non-empty prompt, create_variation for a
\* photo with an empty prompt, generate for a prompt without a photo that is
\* non-empty after trimming; and no remote operation in the remaining case.
ModeSelection ==
    \A i \in RemoteCalls :
        /\ (HasPhoto /\ Truthy(Prompt(h.msg))) => h.log[i].t = "edit"
        /\ (HasPhoto /\ ~Truthy(Prompt(h.msg))) => h.log[i].t = "create_variation"
        /\ (~HasPhoto /\ ~Blank(Prompt(h.msg))) => h.log[i].t = "generate"
        /\ HasPhoto \/ ~Blank(Prompt(h.msg))

EditSelected ==
    /\ HasPhoto
    /\ Truthy(h.msg.caption)
    /\ h.pc = "returned"
    /\ \E i \in RemoteCalls : h.log[i].t = "edit" /\ Ok(i)
    /\ \E i \in PhotoReplies : Ok(i)

\* C2 (as claimed): a message with no photo and an empty or whitespace-only
\* text ends with no remote call and no HTTP fetch, with the guidance
\* message sent and without the generic error message.
BlankRequestGetsGuidance ==
    (~HasPhoto /\ Blank(h.msg.text) /\ Ended) =>
        /\ RemoteCalls = {}
        /\ Downloads = {}
        /\ \E i \in TextReplies("guidance") : Ok(i)
        /\ TextReplies("error") = {}

\* C2 (amended): a message with no photo and an empty or whitespace-only
\* text never leads to a remote call or an HTTP fetch; once the status
\* indicator has been sent the guidance message is sent exactly once; the
\* generic error message is sent only after the guidance reply failed.
BlankRequestNoRemoteCall ==
    (h.pc # "idle" /\ ~HasPhoto /\ Blank(h.msg.text)) =>
        /\ RemoteCalls = {}
        /\ Downloads = {}
        /\ StatusSent => Cardinality(TextReplies("guidance")) = 1
        /\ ~StatusSent => TextReplies("guidance") = {}
        /\ \A i \in TextReplies("error") :
               \E j \in TextReplies("guidance") : j < i /\ Failed(j)
        /\ (\E j \in TextReplies("guidance") : Ok(j)) => h.pc = "returned"

BlankRequestAnswered ==
    /\ ~HasPhoto
    /\ Truthy(h.msg.text)
    /\ Blank(h.msg.text)
    /\ h.pc = "returned"
    /\ \E i \in TextReplies("guidance") : Ok(i)

\* A step of the handling has failed: the attachment download (get_file or
\* the HTTP GET), the image decode, the remote call, or the result fetch
\* (the GET failed, or the response carried no URL to fetch).
StepFailed ==
    \/ \E i \in Idx({"get_file", "download_file"} \cup RemoteOps) : Failed(i)
    \/ \E i \in Downloads :
           h.log[i].arg[1] \in FilePaths /\ Ok(i) /\ ~Decodes(h.log[i].res[1])
    \/ \E i \in RemoteCalls : Ok(i) /\ h.log[i].res[1] = NoUrl

\* C3 (as claimed): a failure at any step ends with exactly one generic
\* error reply sent, no photo reply, and the handler returning normally.
FailureGetsOneErrorReply ==
    (StepFailed /\ Ended) =>
        /\ Cardinality({i \in TextReplies("error") : Ok(i)}) = 1
        /\ PhotoReplies = {}
        /\ h.pc = "returned"

\* C3 (amended): a failure at any step makes the handler send the generic
\* error reply exactly once and no photo reply; the handler returns
\* normally when that reply is delivered, and the exception of the reply
\* escapes the handler when it is not.
FailureSendsOneErrorReply ==
    StepFailed =>
        /\ Cardinality(TextReplies("error")) = 1
        /\ PhotoReplies = {}
        /\ TextReplies("guidance") = {}
        /\ h.pc \in {"reply_error", "returned", "raised"}
        /\ \A i \in TextReplies("error") :
               /\ h.pc = "returned" <=> Ok(i)
               /\ h.pc = "raised" <=> Failed(i)

RemoteFailureAnswered ==
    /\ h.pc = "returned"
    /\ \E i \in RemoteCalls : Failed(i)
    /\ \E i \in TextReplies("error") : Ok(i)

\* C4: once the remote call has returned a result URL there is exactly one
\* fetch after it, of exactly that URL, and a photo reply carries exactly
\* the bytes that fetch returned.
ResultFetchedOnce ==
    \A i \in RemoteCalls :
        (Ok(i) /\ h.log[i].res[1] \in Urls) =>
            /\ Cardinality({j \in Downloads : j > i}) = 1
            /\ \A j \in Downloads : j > i => h.log[j].arg = <<h.log[i].res[1]>>
            /\ \A k \in PhotoReplies :
                   \E j \in Downloads :
                       /\ i < j /\ j < k
                       /\ Ok(j)
                       /\ h.log[k].arg[2] = h.log[j].res[1]

ResultForwarded ==
    /\ h.pc = "returned"
    /\ \E i \in RemoteCalls, j \in Downloads, k \in PhotoReplies :
           /\ i < j /\ j < k
           /\ h.log[i].res = <<"u2">>
           /\ h.log[j].arg = <<"u2">>
           /\ h.log[j].res = <<"b2">>
           /\ h.log[k].arg[2] = "b2"
           /\ Ok(k)

\* The request is not empty: it has a photo, or a prompt that is non-empty
\* after trimming.
RequestNotEmpty == HasPhoto \/ ~Blank(Prompt(h.msg))

\* The attachment, if any, was downloaded and decoded.
AttachmentReady ==
    HasPhoto =>
        \E i \in Downloads :
            h.log[i].arg[1] \in FilePaths /\ Ok(i) /\ Decodes(h.log[i].res[1])

\* C5 (as claimed): at most one remote call per message, and exactly one
\* when the request is not empty and the attachment download and decode,
\* if any, succeeded.
ExactlyOneRemoteCall ==
    /\ Cardinality(RemoteCalls) <= 1
    /\ (Ended /\ RequestNotEmpty /\ AttachmentReady) =>
           Cardinality(RemoteCalls) = 1

\* C5 (amended): at most one remote call per message, whatever fails
\* later; exactly one when the status indicator was sent, the request is
\* not empty and the attachment download and decode, if any, succeeded.
OneRemoteCallOnceStarted ==
    /\ Cardinality(RemoteCalls) <= 1
    /\ (StatusSent /\ RequestNotEmpty /\ AttachmentReady) =>
           Cardinality(RemoteCalls) = 1

NoRetryAfterFetchFailure ==
    /\ Ended
    /\ Cardinality(RemoteCalls) = 1
    /\ \E i \in RemoteCalls, j \in Downloads : i < j /\ Ok(i) /\ Failed(j)

\* The terminal replies that were delivered.
Delivered ==
    {i \in PhotoReplies \cup Idx({"reply_text"}) : Ok(i)}

\* C6: at most one terminal reply (photo, guidance, generic error) is
\* delivered per message; a delivered photo is never accompanied by the
\* generic error message; a photo reply is sent only after the remote call
\* and the result fetch succeeded.
AtMostOneReply ==
    /\ Cardinality(Delivered) <= 1
    /\ (\E k \in PhotoReplies : Ok(k)) => TextReplies("error") = {}
    /\ \A k \in PhotoReplies :
           \E i \in RemoteCalls, j \in Downloads :
               i < j /\ j < k /\ Ok(i) /\ Ok(j)

PhotoReplyFailedThenError ==
    /\ h.pc = "returned"
    /\ \E k \in PhotoReplies : Failed(k)
    /\ \E i \in TextReplies("error") : Ok(i)
    /\ Cardinality(Delivered) = 1

\* C7: the status indicator is the first call of every handling, it goes
\* to the chat of the message, and nothing else is done for the message
\* before it has been sent.
StatusIndicatorFirst ==
    (h.fn = "process_media" /\ h.log # <<>>) =>
        /\ h.log[1].t = "send_action"
        /\ h.log[1].arg = <<h.msg.chat, "upload_photo">>
        /\ Len(h.log) > 1 => Ok(1)
        /\ Idx({"send_action"}) = {1}

WorkAfterStatusIndicator ==
    /\ h.msg.chat = 2
    /\ Len(h.log) > 1
    /\ h.log[2].t = "get_file"

\* C8: after a termination signal has been delivered to the running bot
\* the process eventually exits: main() has returned, run_bot has cancelled
\* the outstanding tasks, awaited them and closed the loop.
SignalLeadsToExit ==
    (sigCount > 0) ~> (procPc = "exited" /\ mainResult # "none" /\ tasks = {})

\* C9: a process started with the bot token or the API key absent ends
\* with the error logged and without having built the application,
\* registered a handler or started polling.
CredentialMissing == env.token = "unset" \/ env.key = "unset"
ProcessEnded == procPc \in {"exited", "import_error"}
MissingCredentialLogged ==
    CredentialMissing =>
        /\ application = NoApplication
        /\ ProcessEnded => errorLogged

\* C10: while the handler of one message waits on a network call
\* (attachment download, remote generation call, result download) the
\* handler of another message that has arrived can take a step.
OtherHandlerCanStep ==
    (h.pc \in Blocking /\ queue > 0 /\ application.fetching) => ENABLED Dispatch

\* C12: a /start command is answered by the start handler alone: exactly
\* one reply is sent, the static greeting, to the chat of the command; no
\* status indicator, no remote call, no HTTP fetch; process_media does not
\* handle the command as well.
StartCommandGreetsOnly ==
    (h.pc # "idle" /\ h.msg.text = <<Command>>) =>
        /\ h.fn = "start"
        /\ Len(h.log) = 1
        /\ h.log[1].t = "reply_text"
        /\ h.log[1].arg = <<h.msg.chat, "greeting">>
        /\ Idx({"send_action", "get_file", "download_file"} \cup RemoteOps) = {}

StartCommandGreeted ==
    /\ h.msg.text = <<Command>>
    /\ h.pc = "returned"
    /\ h.log[1].arg = <<h.msg.chat, "greeting">>
    /\ Ok(1)

\* The text between the first and the last character of s that is not a
\* space.
TrimOf(s) ==
    LET ns == {i \in DOMAIN s : s[i] # " "}
    IN  IF ns = {} THEN <<>>
        ELSE SubSeq(s, CHOOSE i \in ns : \A j \in ns : i <= j,
                       CHOOSE i \in ns : \A j \in ns : j <= i)

\* The prompts message m itself can give rise to.
OwnPrompts == {h.msg.caption, h.msg.text} \cup
              (IF h.msg.text = None THEN {} ELSE {TrimOf(h.msg.text)})

\* C11: whatever other messages were handled before or are waiting, all
\* that is done for a message comes from that message: every status
\* indicator and reply goes to its own chat, the prompt of its remote call
\* is its own caption or text, the attachment fetched is its own photo,
\* the result fetched is the URL its own remote call returned and the
\* photo reply carries the bytes of that fetch.
HandledByItsOwnMessage ==
    /\ \A i \in Idx({"send_action", "reply_text", "reply_photo"}) :
           h.log[i].arg[1] = h.msg.chat
    /\ \A i \in Idx({"edit", "generate"}) :
           h.log[i].arg[1] \in OwnPrompts \ {None}
    /\ \A i \in Idx({"get_file"}) :
           h.log[i].arg[1] \in Range(h.msg.photo)
    /\ \A k \in PhotoReplies :
           \E i \in RemoteCalls, j \in Downloads :
               /\ i < j /\ j < k
               /\ h.log[j].arg = h.log[i].res
               /\ h.log[k].arg[2] = h.log[j].res[1]
    /\ h.fn = "none" <=> h.log = <<>>

RepliedWhileOthersWait ==
    /\ queue > 0
    /\ h.msg.chat = 2
    /\ h.pc = "returned"
    /\ \E k \in PhotoReplies : Ok(k) /\ h.log[k].arg[1] = 2

\* The prompt of a message: its caption, or its text when the caption is
\* absent or empty.
OwnPrompt ==
    IF h.msg.caption \notin {None, <<>>} THEN h.msg.caption
    ELSE IF h.msg.text \notin {None, <<>>} THEN h.msg.text
    ELSE <<>>

\* The PNG file built from the highest-resolution photo of the message:
\* get_file of the last photo size, the download of the path it returned,
\* and the re-encoding of the bytes downloaded.
OwnImage(image) ==
    \E g \in Idx({"get_file"}), d \in Downloads :
        /\ g < d
        /\ h.log[g].arg = <<h.msg.photo[Len(h.msg.photo)]>>
        /\ h.msg.photo[Len(h.msg.photo)] = "large"
        /\ h.log[d].arg = h.log[g].res
        /\ image = <<"image.png", <<"png", h.log[d].res[1]>>, "image/png">>

\* C13: the prompt forwarded to the remote service is the message's own:
\* the caption, or the text when the caption is absent or empty; a
\* generate call receives it with the surrounding whitespace trimmed; an
\* edit call receives it untrimmed, with the PNG re-encoding of the
\* message's highest-resolution photo.
PromptForwarded ==
    /\ \A i \in Idx({"generate"}) : h.log[i].arg = <<TrimOf(OwnPrompt)>>
    /\ \A i \in Idx({"edit"}) :
           /\ h.log[i].arg[1] = OwnPrompt
           /\ OwnImage(h.log[i].arg[2])

CaptionForwardedWithPhoto ==
    /\ h.msg.caption = <<"a">>
    /\ h.msg.text = <<" ">>
    /\ \E i \in Idx({"edit"}) :
           /\ h.log[i].arg[1] = <<"a">>
           /\ OwnImage(h.log[i].arg[2])
           /\ Ok(i)

\* The message has a photo and a caption made of whitespace only.
WhitespaceCaption ==
    /\ HasPhoto
    /\ h.msg.caption \notin {None, <<>>}
    /\ \A i \in DOMAIN h.msg.caption : h.msg.caption[i] = " "

\* C14: a photo with a whitespace-only caption is not trimmed: its prompt
\* counts as non-empty, the remote call made once the image is ready is an
\* edit call with the caption as it came, never a variation call, and the
\* guidance message is never sent.
WhitespaceCaptionEdits ==
    (h.fn = "process_media" /\ WhitespaceCaption) =>
        /\ \A i \in RemoteCalls :
               h.log[i].t = "edit" /\ h.log[i].arg[1] = h.msg.caption
        /\ AttachmentReady => RemoteCalls # {}
        /\ TextReplies("guidance") = {}

WhitespaceCaptionEdited ==
    /\ h.msg.caption = <<" ">>
    /\ h.msg.photo # <<>>
    /\ \E i \in Idx({"edit"}) : h.log[i].arg[1] = <<" ">> /\ Ok(i)

\* call i failed and the next call is the generic error reply
AnsweredWithError(i) ==
    /\ i < Len(h.log)
    /\ h.log[i + 1].t = "reply_text"
    /\ h.log[i + 1].arg = <<h.msg.chat, "error">>

\* C15: the catch-all of process_media covers the steps after the status
\* indicator only.  A failed status indicator escapes the handler with
\* nothing else done: no remote call, no error reply.  A failed generic
\* error reply escapes the handler.  A failed guidance reply or photo
\* reply is caught and answered with the generic error message.  Nothing
\* else escapes.
CatchAllScope ==
    h.fn = "process_media" =>
        /\ Failed(1) => (h.pc = "raised" /\ Len(h.log) = 1)
        /\ \A i \in TextReplies("error") :
               Failed(i) => (h.pc = "raised" /\ i = Len(h.log))
        /\ \A i \in TextReplies("guidance") \cup PhotoReplies :
               Failed(i) => AnsweredWithError(i)
        /\ h.pc = "raised" =>
               /\ Failed(Len(h.log))
               /\ Len(h.log) \in {1} \cup TextReplies("error")

ErrorReplyEscaped ==
    /\ h.pc = "raised"
    /\ \E k \in PhotoReplies, i \in TextReplies("error") :
           Failed(k) /\ i = k + 1 /\ Failed(i)

\* The shutdown task of the k-th signal has made its first call.
Started(k) == sd[k] \notin {"none", "updater_stop"}
\* ... and has not ended yet.
Running(k) == Started(k) /\ sd[k] \notin {"done", "failed"}

\* C16: whatever the number of signals, the shutdown sequence is run at
\* most once, never on an application that is already stopped, and two
\* runs of it never overlap.
ShutdownRunsOnce ==
    /\ Cardinality({k \in 1..MaxSignals : Started(k)}) <= 1
    /\ \A k \in 1..MaxSignals : sd[k] # "failed"
    /\ \A j, k \in 1..MaxSignals : (j # k /\ Running(j)) => ~Started(k)

====
